---- MODULE Spec2Model ----
(***************************************************************************)
(* Turn-level scoring engine and adaptive weakness profiling of the        *)
(* SmartMem Green Agent: green_agent_v2.TurnEvaluator, the legacy          *)
(* app.TurnEvaluator, WeaknessAnalyzer and AdaptiveEvaluator.              *)
(***************************************************************************)
EXTENDS Integers, Sequences, FiniteSets, TLC

(***************************************************************************)
(* Bounds of the model.                                                    *)
(***************************************************************************)
\* longest action sequence drawn for one evaluation
MaxActions == 2
\* number of evaluate_turn calls in one session
MaxCalls == 2
MaxUpdates == 10
MaxSessions == 2
MaxTurns == 2
MaxTasks == 2
MaxRequests == 3

(***************************************************************************)
(* Python values.  A value is a record of its type tag, its number (for    *)
(* bool, int, float) and its text (for str).  PyEq is Python's ==.         *)
(***************************************************************************)
PyNone == [t |-> "none", n |-> 0, s |-> ""]
PyTrue == [t |-> "bool", n |-> 1, s |-> ""]
PyFalse == [t |-> "bool", n |-> 0, s |-> ""]
Str(x) == [t |-> "str", n |-> 0, s |-> x]
PyInt(i) == [t |-> "int", n |-> i, s |-> ""]
PyBool(b) == IF b THEN PyTrue ELSE PyFalse
\* the float with the integral value i
PyFloat(i) == [t |-> "float", n |-> i, s |-> ""]

IsNumber(v) == v.t \in {"bool", "int", "float"}

\* a == b on values: numbers compare by value across bool/int/float,
\* everything else by type and content
PyEq(a, b) ==
    IF IsNumber(a) /\ IsNumber(b)
    THEN a.n = b.n
    ELSE a.t = b.t /\ a.n = b.n /\ a.s = b.s

\* a == b on dicts whose values are plain values
DictEq(a, b) ==
    /\ DOMAIN a = DOMAIN b
    /\ \A k \in DOMAIN a : PyEq(a[k], b[k])

\* d.get(k)
get(d, k) == IF k \in DOMAIN d THEN d[k] ELSE PyNone

SeqsUpTo(S, n) == UNION {[1..k -> S] : k \in 0..n}

\* all dicts with keys among K and values among V
Dicts(K, V) == UNION {[D -> V] : D \in SUBSET K}

Range(f) == {f[i] : i \in DOMAIN f}

(***************************************************************************)
(* Constraint catalog.                                                     *)
(***************************************************************************)
DIMENSIONS == {"precision", "ambiguous", "conflict", "memory", "noise"}

DIFFICULTIES == {"easy", "medium", "difficult"}

DEVICE_CONSTRAINTS ==
    {"living_room_light", "living_room_color", "bedroom_light",
     "bedroom_color", "ac", "ac_temperature", "fan_speed", "music_volume",
     "front_door_lock", "kitchen_light"}

\* iteration order of dict keys (a dict is modelled as a function; its
\* items() are visited in this order)
KeyOrder ==
    << "living_room_light", "living_room_color", "bedroom_light",
       "bedroom_color", "ac", "ac_temperature", "fan_speed", "music_volume",
       "front_door_lock", "kitchen_light", "garage_door" >>

(***************************************************************************)
(* Error strings, kept as the data the f-strings are formatted from.       *)
(***************************************************************************)
\* f"Action count mismatch: expected {n}, got {m}"
CountError(n, m) == [kind |-> "count", exp_count |-> n, got_count |-> m]

\* f"Action #{i} mismatch: expected {exp}, got {act}"
ActionError(i, exp, act) ==
    [kind |-> "action", idx |-> i, exp_action |-> exp, got_action |-> act]

\* f"State mismatch [{key}]: expected '{exp_val}', got '{act_val}'"
StateError(key, exp_val, act_val) ==
    [kind |-> "state", key |-> key, exp_val |-> exp_val, got_val |-> act_val]

\* f"Missing key in final state: {key}"
MissingKeyError(key) == [kind |-> "missing", key |-> key]

IsSequenceError(e) == e.kind \in {"count", "action"}

(***************************************************************************)
(* green_agent_v2.TurnEvaluator                                            *)
(***************************************************************************)
_build_result(score, seq_match, state_match, errors, msg) ==
    [score |-> score,
     details |-> [sequence_match |-> seq_match,
                  state_match |-> state_match,
                  errors |-> errors],
     message |-> msg]

\* step 1 of evaluate with only the length test (positions never compared)
SequenceErrorsLengthOnly(expected_actions, actual_actions) ==
    IF Len(actual_actions) # Len(expected_actions)
    THEN << CountError(Len(expected_actions), Len(actual_actions)) >>
    ELSE << >>

\* step 1 of evaluate: the errors of the sequence verification
SequenceErrors(expected_actions, actual_actions) ==
    IF Len(actual_actions) # Len(expected_actions)
    THEN << CountError(Len(expected_actions), Len(actual_actions)) >>
    ELSE LET idx == [i \in 1..Len(expected_actions) |-> i]
             bad == SelectSeq(idx, LAMBDA i :
                        ~DictEq(expected_actions[i], actual_actions[i]))
         IN  [j \in 1..Len(bad) |->
                 ActionError(bad[j] - 1, expected_actions[bad[j]],
                             actual_actions[bad[j]])]

\* step 2 of evaluate visiting the keys of the actual state as well
StateErrorsAllKeys(expected_final_state, actual_final_state) ==
    LET bad == SelectSeq(KeyOrder, LAMBDA k :
                   /\ k \in DOMAIN expected_final_state
                            \cup DOMAIN actual_final_state
                   /\ ~PyEq(get(actual_final_state, k),
                            get(expected_final_state, k)))
    IN  [j \in 1..Len(bad) |->
            StateError(bad[j], get(expected_final_state, bad[j]),
                       get(actual_final_state, bad[j]))]

\* step 2 of evaluate: the errors of the state verification, one per
\* expected key whose actual value (None when missing) differs
StateErrors(expected_final_state, actual_final_state) ==
    LET bad == SelectSeq(KeyOrder, LAMBDA k :
                   /\ k \in DOMAIN expected_final_state
                   /\ ~PyEq(get(actual_final_state, k),
                            expected_final_state[k]))
    IN  [j \in 1..Len(bad) |->
            StateError(bad[j], expected_final_state[bad[j]],
                       get(actual_final_state, bad[j]))]

\* score of a turn whose sequence matched, with -1 for a state mismatch
StateScoreTernary(state_match) == IF state_match THEN 1 ELSE -1

\* score = 1 if state_match else 0
StateScore(state_match) == IF state_match THEN 1 ELSE 0

evaluate(expected_actions, expected_final_state, actual_actions, actual_final_state) ==
    LET seq_errors == SequenceErrors(expected_actions, actual_actions)
        sequence_match == Len(seq_errors) = 0
        state_errors == StateErrors(expected_final_state, actual_final_state)
        state_match == Len(state_errors) = 0
        score == StateScore(state_match)
    IN  IF ~sequence_match
        THEN _build_result(0, sequence_match, PyFalse, seq_errors,
                           "Sequence mismatch")
        ELSE _build_result(score, sequence_match, PyBool(state_match),
                           seq_errors \o state_errors,
                           IF score = 1 THEN "Perfect" ELSE "State mismatch")

(***************************************************************************)
(* app.TurnEvaluator (legacy scorer)                                       *)
(***************************************************************************)
\* (matched, errors): stops at the first differing position
_verify_sequence(expected_action, actual_sequence) ==
    IF Len(actual_sequence) # Len(expected_action)
    THEN [ok |-> FALSE,
          errors |-> << CountError(Len(expected_action),
                                   Len(actual_sequence)) >>]
    ELSE LET bad == {i \in 1..Len(expected_action) :
                        ~DictEq(expected_action[i], actual_sequence[i])}
             first == CHOOSE i \in bad : \A j \in bad : i <= j
         IN  IF bad = {}
             THEN [ok |-> TRUE, errors |-> << >>]
             ELSE [ok |-> FALSE,
                   errors |-> << ActionError(first - 1, expected_action[first],
                                             actual_sequence[first]) >>]

\* (matched, errors): stops at the first missing or differing key
_verify_state(expected_final_state, actual_state) ==
    LET bad == SelectSeq(KeyOrder, LAMBDA k :
                   /\ k \in DOMAIN expected_final_state
                   /\ \/ k \notin DOMAIN actual_state
                      \/ ~PyEq(actual_state[k], expected_final_state[k]))
    IN  IF Len(bad) = 0
        THEN [ok |-> TRUE, errors |-> << >>]
        ELSE IF bad[1] \notin DOMAIN actual_state
             THEN [ok |-> FALSE, errors |-> << MissingKeyError(bad[1]) >>]
             ELSE [ok |-> FALSE,
                   errors |-> << StateError(bad[1],
                                            expected_final_state[bad[1]],
                                            actual_state[bad[1]]) >>]

app_evaluate(expected_action, expected_final_state, actual_action_sequence, actual_final_state) ==
    LET sq == _verify_sequence(expected_action, actual_action_sequence)
        st == _verify_state(expected_final_state, actual_final_state)
        score == IF st.ok THEN 1 ELSE 0
    IN  IF ~sq.ok
        THEN [score |-> 0,
              details |-> [sequence_match |-> FALSE,
                           state_match |-> PyNone,
                           errors |-> sq.errors],
              message |-> "Sequence mismatch: Agent's action sequence does not match expected sequence"]
        ELSE [score |-> score,
              details |-> [sequence_match |-> TRUE,
                           state_match |-> PyBool(st.ok),
                           errors |-> sq.errors \o st.errors],
              message |-> IF score = 1
                          THEN "Perfect: Sequence and state both match"
                          ELSE "State mismatch: Final state does not match expected state"]

(***************************************************************************)
(* base.DimensionStats, base.WeaknessProfile, WeaknessAnalyzer             *)
(*                                                                         *)
(* A metadata dict is a record of the set of its keys and the entries      *)
(* 'dimension', 'difficulty' (strings) and 'involved_devices' (a sequence  *)
(* of device names; a Python set is a sequence without repeats).  An       *)
(* entry whose name is not in keys is absent from the dict.                *)
(***************************************************************************)
DimensionStats ==
    [total |-> 0, passed |-> 0, failed |-> 0,
     total_score |-> 0, max_possible_score |-> 0]

\* a quotient num / den, kept exact
Quotient(num, den) == [num |-> num, den |-> den]

max(a, b) == IF a >= b THEN a ELSE b

\* passed / total with no guard against an empty bucket
pass_rate_unguarded(stats) == Quotient(stats.passed, stats.total)

\* passed / max(1, total)
pass_rate(stats) == Quotient(stats.passed, max(1, stats.total))

\* total_score / max(1, max_possible_score)
avg_score(stats) ==
    Quotient(stats.total_score, max(1, stats.max_possible_score))

\* 1.0 - avg_score
weakness_score(stats) ==
    LET avg == avg_score(stats) IN Quotient(avg.den - avg.num, avg.den)

WeaknessProfile ==
    [by_dimension |-> << >>, by_difficulty |-> << >>, by_device |-> << >>,
     failed_cases |-> << >>, boundary_found |-> << >>]

\* WeaknessAnalyzer.__init__: a fresh profile with one zeroed bucket per
\* catalog name
_init_stats ==
    [WeaknessProfile EXCEPT
        !.by_dimension = [d \in DIMENSIONS |-> DimensionStats],
        !.by_difficulty = [d \in DIFFICULTIES |-> DimensionStats],
        !.by_device = [d \in DEVICE_CONSTRAINTS |-> DimensionStats]]

\* _update_single_stat that records a failure as a pass as well
_update_single_stat_both(stats_obj, score, passed) ==
    [stats_obj EXCEPT
        !.total = @ + 1,
        !.total_score = @ + score,
        !.max_possible_score = @ + 1,
        !.passed = @ + 1,
        !.failed = IF passed THEN @ ELSE @ + 1]

\* _update_single_stat that counts failures since the last pass
_update_single_stat_resetting(stats_obj, score, passed) ==
    [stats_obj EXCEPT
        !.total = @ + 1,
        !.total_score = @ + score,
        !.max_possible_score = @ + 1,
        !.passed = IF passed THEN @ + 1 ELSE @,
        !.failed = IF passed THEN 0 ELSE @ + 1]

_update_single_stat(stats_obj, score, passed) ==
    [stats_obj EXCEPT
        !.total = @ + 1,
        !.total_score = @ + score,
        !.max_possible_score = @ + 1,
        !.passed = IF passed THEN @ + 1 ELSE @,
        !.failed = IF passed THEN @ ELSE @ + 1]

\* UpdateNamed that opens a bucket for a name the map does not have
UpdateNamedCreate(buckets, metadata, field, score, passed) ==
    IF field \in metadata.keys /\ metadata[field] # ""
    THEN [k \in DOMAIN buckets \cup {metadata[field]} |->
             IF k = metadata[field]
             THEN _update_single_stat(
                      IF k \in DOMAIN buckets THEN buckets[k]
                      ELSE DimensionStats, score, passed)
             ELSE buckets[k]]
    ELSE buckets

\* name = metadata.get(field); if name and name in buckets:
\* _update_single_stat(buckets[name])
UpdateNamed(buckets, metadata, field, score, passed) ==
    IF /\ field \in metadata.keys
       /\ metadata[field] # ""
       /\ metadata[field] \in DOMAIN buckets
    THEN [buckets EXCEPT
             ![metadata[field]] = _update_single_stat(@, score, passed)]
    ELSE buckets

\* for device in devices: if device in by_device: _update_single_stat(...)
RECURSIVE UpdateDevices(_, _, _, _)
UpdateDevices(by_device, devices, score, passed) ==
    IF Len(devices) = 0
    THEN by_device
    ELSE LET device == Head(devices)
             next == IF device \in DOMAIN by_device
                     THEN [by_device EXCEPT
                              ![device] = _update_single_stat(@, score, passed)]
                     ELSE by_device
         IN  UpdateDevices(next, Tail(devices), score, passed)

\* metadata.get('involved_devices', [])
InvolvedDevices(metadata) ==
    IF "involved_devices" \in metadata.keys
    THEN metadata["involved_devices"]
    ELSE << >>

\* update that also lists a failed result in failed_cases
update_listing_failures(prof, result, metadata) ==
    LET passed == result.score = 1
        score == result.score
    IN  [prof EXCEPT
            !.by_dimension =
                UpdateNamed(@, metadata, "dimension", score, passed),
            !.by_difficulty =
                UpdateNamed(@, metadata, "difficulty", score, passed),
            !.by_device =
                UpdateDevices(@, InvolvedDevices(metadata), score, passed),
            !.failed_cases = IF passed THEN @ ELSE Append(@, result)]

\* WeaknessAnalyzer.update: the profile after one result is recorded
update(prof, result, metadata) ==
    LET passed == result.score = 1
        score == result.score
    IN  [prof EXCEPT
            !.by_dimension =
                UpdateNamed(@, metadata, "dimension", score, passed),
            !.by_difficulty =
                UpdateNamed(@, metadata, "difficulty", score, passed),
            !.by_device =
                UpdateDevices(@, InvolvedDevices(metadata), score, passed)]

(***************************************************************************)
(* AdaptiveEvaluator                                                       *)
(***************************************************************************)
\* the keys of the actions that have one
ActionKeys(actions) ==
    {actions[i]["key"].s : i \in {j \in 1..Len(actions) :
                                     "key" \in DOMAIN actions[j]}}

\* the elements of a set of device names, as a sequence without repeats
SetAsSeq(S) == SelectSeq(KeyOrder, LAMBDA k : k \in S)

\* _extract_devices that looks at the actions only
_extract_devices_actions_only(actions, state) == SetAsSeq(ActionKeys(actions))

\* _extract_devices: keys of the actions and keys of the state, as a set
_extract_devices(actions, state) ==
    SetAsSeq(ActionKeys(actions) \cup DOMAIN state)

\* the index of the next history entry, counted from 1
HistoryIndexOneBased(hist) == Len(hist) + 1

\* "index": len(self.history)
HistoryIndex(hist) == Len(hist)

\* inference run on every call, whatever the metadata declares
NeedsInferenceAlways(metadata) == TRUE

\* if 'involved_devices' not in metadata
NeedsInference(metadata) == "involved_devices" \notin metadata.keys

\* metadata['involved_devices'] = devices
SetInvolvedDevices(metadata, devices) ==
    [metadata EXCEPT !.keys = @ \cup {"involved_devices"},
                     !.involved_devices = devices]

(***************************************************************************)
(* State.                                                                  *)
(*   inp         the construction parameters and arguments of one          *)
(*               TurnEvaluator.evaluate call                               *)
(*   result      what green_agent_v2.TurnEvaluator.evaluate returned       *)
(*   app_result  what app.TurnEvaluator.evaluate returned                  *)
(*   history     AdaptiveEvaluator.history; an entry holds a reference     *)
(*               (an index into heap) to the caller's metadata dict        *)
(*   profile     AdaptiveEvaluator.analyzer.profile                        *)
(*   heap        the metadata dicts the caller has created                 *)
(*   calls       one record per finished evaluate_turn call: its           *)
(*               arguments as passed and the value it returned             *)
(***************************************************************************)
VARIABLES inp, result, app_result, history, profile, heap, calls,
          sessions, objects, threads, TASKS, completers, responses

vars ==
    << inp, result, app_result, history, profile, heap, calls,
       sessions, objects, threads, TASKS, completers, responses >>

evalVars == << inp, result, app_result >>

sessionVars == << history, profile, heap, calls >>

\* the AdaptiveEvaluator objects of a host with several sessions, the
\* lists and profiles they refer to, and the threads of a host that calls
\* one session concurrently
hostVars == << sessions, objects, threads >>

\* the fake Purple server: its task store, the threads that run
\* complete_task, and the responses it has sent
serverVars == << TASKS, completers, responses >>

\* a server that has received no request
NoServer ==
    /\ TASKS = << >>
    /\ completers = << >>
    /\ responses = << >>

NoObjects == [lists |-> << >>, profiles |-> << >>]

\* a host with no session object and no thread
NoHost ==
    /\ sessions = << >>
    /\ objects = NoObjects
    /\ threads = << >>

\* {"action": "update", "key": key, "value": value}
UpdateAction(key, value) ==
    [action |-> Str("update"), key |-> Str(key), value |-> Str(value)]

\* an action dict without a 'key' entry
NoKeyAction == [action |-> Str("noop")]

NoResult == _build_result(0, FALSE, PyNone, << >>, "")

NoInput ==
    [expected_actions |-> << >>, expected_final_state |-> << >>,
     actual_actions |-> << >>, actual_final_state |-> << >>]

(***************************************************************************)
(* One evaluation of a turn by both scorers, over all bounded inputs.      *)
(***************************************************************************)
EvalActions ==
    {UpdateAction("ac", "on"), UpdateAction("ac", "off"),
     UpdateAction("kitchen_light", "on")}

EvalKeys == {"ac", "kitchen_light"}

EvalValues == {Str("on"), Str("off"), PyNone}

EvalInit ==
    /\ inp \in [expected_actions : SeqsUpTo(EvalActions, MaxActions),
                expected_final_state : Dicts(EvalKeys, EvalValues),
                actual_actions : SeqsUpTo(EvalActions, MaxActions),
                actual_final_state : Dicts(EvalKeys, EvalValues)]
    /\ result = NoResult
    /\ app_result = NoResult
    /\ history = << >>
    /\ profile = _init_stats
    /\ heap = << >>
    /\ calls = << >>
    /\ NoServer
    /\ NoHost

\* green_agent_v2: TurnEvaluator(expected...).evaluate(actual...)
Evaluate ==
    /\ result = NoResult
    /\ result' = evaluate(inp.expected_actions, inp.expected_final_state,
                          inp.actual_actions, inp.actual_final_state)
    /\ UNCHANGED << inp, app_result, sessionVars, hostVars, serverVars >>

\* app: TurnEvaluator(expected...).evaluate(actual...)
AppEvaluate ==
    /\ app_result = NoResult
    /\ app_result' = app_evaluate(inp.expected_actions,
                                  inp.expected_final_state,
                                  inp.actual_actions, inp.actual_final_state)
    /\ UNCHANGED << inp, result, sessionVars, hostVars, serverVars >>

EvalNext == Evaluate \/ AppEvaluate

SpecEval == EvalInit /\ [][EvalNext]_vars

(***************************************************************************)
(* One AdaptiveEvaluator session driven by one caller.                     *)
(***************************************************************************)
SessExpectedActions ==
    {<< UpdateAction("ac", "on") >>,
     << NoKeyAction, UpdateAction("garage_door", "on") >>}

SessExpectedStates ==
    {[k \in {"ac"} |-> Str("on")], [k \in {"kitchen_light"} |-> Str("on")]}

SessActualActions == {<< UpdateAction("ac", "on") >>}

SessActualStates == {[k \in {"ac", "fan_speed"} |-> Str("on")]}

\* the metadata dicts a caller builds
SessMetadata ==
    {m \in [keys : SUBSET {"dimension", "difficulty", "involved_devices"},
            dimension : {"", "precision", "speed"},
            difficulty : {"easy", "hard"},
            involved_devices : {<< >>, << "ac", "ac" >>,
                                << "garage_door", "kitchen_light" >>}] :
        /\ ("dimension" \in m.keys) = (m.dimension # "")
        /\ "difficulty" \in m.keys
        /\ ("involved_devices" \in m.keys) = (m.involved_devices # << >>)}

Init ==
    /\ inp = NoInput
    /\ result = NoResult
    /\ app_result = NoResult
    /\ history = << >>
    /\ profile = _init_stats
    /\ heap = << >>
    /\ calls = << >>
    /\ NoServer
    /\ NoHost

\* evaluate_turn handing the enriched history entry back to its caller
ReturnedRecord(res, full_record) == full_record

\* return result
Returned(res, full_record) == res

\* AdaptiveEvaluator.evaluate_turn, called with the metadata dict heap_[obj]
evaluate_turn(actual_actions, actual_state, expected_actions, expected_state, obj, heap_) ==
    LET res == evaluate(expected_actions, expected_state,
                        actual_actions, actual_state)
        full_record == [score |-> res.score,
                        details |-> res.details,
                        message |-> res.message,
                        metadata |-> obj,
                        index |-> HistoryIndex(history)]
        given == heap_[obj]
        metadata == IF NeedsInference(given)
                    THEN SetInvolvedDevices(given,
                             _extract_devices(expected_actions, expected_state))
                    ELSE given
    IN  /\ history' = Append(history, full_record)
        /\ heap' = [heap_ EXCEPT ![obj] = metadata]
        /\ profile' = update(profile, res, metadata)
        /\ calls' = Append(calls,
                        [actual_actions |-> actual_actions,
                         actual_state |-> actual_state,
                         expected_actions |-> expected_actions,
                         expected_state |-> expected_state,
                         metadata |-> obj,
                         given |-> given,
                         returned |-> Returned(res, full_record)])

\* the caller builds a new metadata dict and calls evaluate_turn with it
CallFresh ==
    /\ Len(calls) < MaxCalls
    /\ \E ea \in SessExpectedActions, es \in SessExpectedStates,
          aa \in SessActualActions, as \in SessActualStates,
          m \in SessMetadata :
          evaluate_turn(aa, as, ea, es, Len(heap) + 1, Append(heap, m))
    /\ UNCHANGED << evalVars, hostVars, serverVars >>

\* the caller calls evaluate_turn with a metadata dict it passed before
CallReuse ==
    /\ Len(calls) < MaxCalls
    /\ \E ea \in SessExpectedActions, es \in SessExpectedStates,
          aa \in SessActualActions, as \in SessActualStates,
          obj \in 1..Len(heap) :
          evaluate_turn(aa, as, ea, es, obj, heap)
    /\ UNCHANGED << evalVars, hostVars, serverVars >>

Next == CallFresh \/ CallReuse

Spec == Init /\ [][Next]_vars

(***************************************************************************)
(* Properties of TurnEvaluator.evaluate (checked under SpecEval).          *)
(***************************************************************************)
Evaluated == result # NoResult

AppEvaluated == app_result # NoResult

\* same length and equal at every position
SameSequence(expected, actual) ==
    /\ Len(actual) = Len(expected)
    /\ \A i \in 1..Len(expected) : DictEq(expected[i], actual[i])

\* the actual state agrees with the expected state on every expected key
AgreesOnExpected(expected_state, actual_state) ==
    \A k \in DOMAIN expected_state :
        k \in DOMAIN actual_state /\ PyEq(actual_state[k], expected_state[k])

\* C1: whenever the actual sequence fails the sequence check, the result of
\* evaluate has score 0, sequence_match false, state_match None (not False)
\* and only sequence errors.
C1_ShortCircuitNull ==
    (Evaluated /\ ~SameSequence(inp.expected_actions, inp.actual_actions)) =>
        /\ result.score = 0
        /\ result.details.sequence_match = FALSE
        /\ result.details.state_match = PyNone
        /\ \A i \in 1..Len(result.details.errors) :
              IsSequenceError(result.details.errors[i])

\* C2: the score of either scorer is 0 or 1, and it is 1 exactly when
\* sequence_match is true and state_match is True.
C2_BinaryScore ==
    /\ Evaluated =>
          /\ result.score \in {0, 1}
          /\ (result.score = 1) <=>
                (result.details.sequence_match
                 /\ result.details.state_match = PyTrue)
    /\ AppEvaluated =>
          /\ app_result.score \in {0, 1}
          /\ (app_result.score = 1) <=>
                (app_result.details.sequence_match
                 /\ app_result.details.state_match = PyTrue)

\* a turn whose sequence matched and whose state did not, scored 0
C2_Witness ==
    /\ Evaluated
    /\ result.details.sequence_match
    /\ result.details.state_match = PyFalse
    /\ result.score = 0
    /\ Len(inp.expected_actions) > 0

\* C3: sequence_match is true exactly when the actual sequence has the
\* length of the expected one and equals it position by position.
C3_SequenceMatch ==
    Evaluated =>
        (result.details.sequence_match <=>
            SameSequence(inp.expected_actions, inp.actual_actions))

\* the same two actions in the other order: sequence_match is false
C3_Witness ==
    /\ Evaluated
    /\ Len(inp.expected_actions) = 2
    /\ Len(inp.actual_actions) = 2
    /\ ~DictEq(inp.expected_actions[1], inp.expected_actions[2])
    /\ DictEq(inp.actual_actions[1], inp.expected_actions[2])
    /\ DictEq(inp.actual_actions[2], inp.expected_actions[1])
    /\ result.details.sequence_match = FALSE

\* C4: when the sequence matches and the actual state agrees with the
\* expected state on every expected key, state_match is True, the score is
\* 1 and there is no error, whatever else the actual state holds.
C4_PartialState ==
    (/\ Evaluated
     /\ result.details.sequence_match
     /\ AgreesOnExpected(inp.expected_final_state, inp.actual_final_state)) =>
        /\ result.details.state_match = PyTrue
        /\ result.score = 1
        /\ result.details.errors = << >>

\* a perfect turn whose actual state holds a key the expected state lacks
C4_Witness ==
    /\ Evaluated
    /\ result.details.sequence_match
    /\ AgreesOnExpected(inp.expected_final_state, inp.actual_final_state)
    /\ result.score = 1
    /\ DOMAIN inp.expected_final_state # {}
    /\ DOMAIN inp.actual_final_state \ DOMAIN inp.expected_final_state # {}

(***************************************************************************)
(* Properties of an AdaptiveEvaluator session (checked under Spec).        *)
(***************************************************************************)
\* the metadata dict as evaluate_turn forwards it to the analyzer in call c
Forwarded(c) ==
    IF "involved_devices" \in c.given.keys
    THEN c.given
    ELSE SetInvolvedDevices(c.given,
             SetAsSeq(ActionKeys(c.expected_actions)
                      \cup DOMAIN c.expected_state))

\* does the metadata of call c name bucket name of the map kind
References(c, kind, name) ==
    CASE kind = "by_dimension" ->
            "dimension" \in c.given.keys /\ c.given.dimension = name
      [] kind = "by_difficulty" ->
            "difficulty" \in c.given.keys /\ c.given.difficulty = name
      [] kind = "by_device" -> name \in Range(Forwarded(c).involved_devices)

BucketKinds == {"by_dimension", "by_difficulty", "by_device"}

\* no entry of history is removed, moved or changed
HistoryKept ==
    /\ Len(history') >= Len(history)
    /\ \A i \in 1..Len(history) : history'[i] = history[i]

\* entry i of history carries index i - 1 and the result of call i
HistoryIndexed ==
    /\ Len(history) = Len(calls)
    /\ \A i \in 1..Len(history) :
          /\ history[i].index = i - 1
          /\ history[i].metadata = calls[i].metadata
          /\ history[i].score = calls[i].returned.score
          /\ history[i].details = calls[i].returned.details
          /\ history[i].message = calls[i].returned.message

\* C5: after N calls history has N entries, entry i carries index i and
\* belongs to call i, and no call removes, reorders or re-indexes an entry.
C5_HistoryAppendOnly == []HistoryIndexed /\ [][HistoryKept]_vars

\* two calls with different outcomes, recorded in call order
C5_Witness ==
    /\ Len(history) >= 2
    /\ history[1].index = 0
    /\ history[2].index = 1
    /\ history[1].score = 1
    /\ history[2].score = 0

\* C6: every bucket's total is the number of calls whose metadata
\* referenced the bucket; a call that names a device twice counts once.
C6_TotalCountsCalls ==
    \A kind \in BucketKinds : \A name \in DOMAIN profile[kind] :
        profile[kind][name].total =
            Cardinality({i \in 1..Len(calls) :
                            References(calls[i], kind, name)})

\* C7: every bucket has total = passed + failed and total_score <=
\* max_possible_score, and also total_score = passed and
\* max_possible_score = total.
C7_BucketInvariant ==
    \A kind \in BucketKinds : \A name \in DOMAIN profile[kind] :
        LET b == profile[kind][name]
        IN  /\ b.total = b.passed + b.failed
            /\ b.total_score <= b.max_possible_score
            /\ b.total_score = b.passed
            /\ b.max_possible_score = b.total

\* a bucket that has recorded a pass and a fail
C7_Witness ==
    \E kind \in BucketKinds : \E name \in DOMAIN profile[kind] :
        profile[kind][name].passed >= 1 /\ profile[kind][name].failed >= 1

\* the call made by this step
ThisCall == calls'[Len(calls')]

IsCallStep == Len(calls') = Len(calls) + 1

\* every bucket the call names gets exactly one outcome, the call's
SingleOutcomeStep ==
    IsCallStep =>
        \A kind \in BucketKinds : \A name \in DOMAIN profile[kind] :
            References(ThisCall, kind, name) =>
                LET b == profile[kind][name]
                    score == ThisCall.returned.score
                IN  profile'[kind][name] =
                        [total |-> b.total + 1,
                         max_possible_score |-> b.max_possible_score + 1,
                         total_score |-> b.total_score + score,
                         passed |-> b.passed + (IF score = 1 THEN 1 ELSE 0),
                         failed |-> b.failed + (IF score = 1 THEN 0 ELSE 1)]

\* C8: one update records the same single outcome in every bucket it
\* touches: total + 1, max_possible_score + 1, total_score + score and one
\* of passed or failed + 1.
C8_SingleOutcome == [][SingleOutcomeStep]_vars

\* C9: a call whose metadata had no involved_devices leaves in it the union
\* of the keys of expected_actions and of expected_final_state, each once,
\* and no device that only the actual side names.
C9_DeviceInference ==
    \A i \in 1..Len(calls) :
        "involved_devices" \notin calls[i].given.keys =>
            LET c == calls[i]
                m == heap[c.metadata]
                expected == ActionKeys(c.expected_actions)
                                \cup DOMAIN c.expected_state
                actual == ActionKeys(c.actual_actions)
                              \cup DOMAIN c.actual_state
            IN  /\ "involved_devices" \in m.keys
                /\ Range(m.involved_devices) = expected
                /\ Len(m.involved_devices) = Cardinality(expected)
                /\ Range(m.involved_devices) \cap (actual \ expected) = {}

\* an inferring call where a device is named by an expected action and by
\* the expected state, and the actual side names other devices
C9_Witness ==
    \E i \in 1..Len(calls) :
        LET c == calls[i]
        IN  /\ "involved_devices" \notin c.given.keys
            /\ ActionKeys(c.expected_actions) \cap DOMAIN c.expected_state # {}
            /\ (ActionKeys(c.actual_actions) \cup DOMAIN c.actual_state)
                   \ (ActionKeys(c.expected_actions)
                          \cup DOMAIN c.expected_state) # {}
            /\ heap[c.metadata].involved_devices = << "ac" >>

\* a call completes, opens no bucket, and every catalog bucket its
\* metadata names is updated even when other names are not in the catalog
SkipUnrecognizedStep ==
    IsCallStep =>
        /\ Len(history') = Len(history) + 1
        /\ DOMAIN profile'.by_dimension = DIMENSIONS
        /\ DOMAIN profile'.by_difficulty = DIFFICULTIES
        /\ DOMAIN profile'.by_device = DEVICE_CONSTRAINTS
        /\ \A kind \in BucketKinds : \A name \in DOMAIN profile[kind] :
              References(ThisCall, kind, name) =>
                  profile'[kind][name].total > profile[kind][name].total

\* C10: names outside the catalog (or absent) are skipped: the call
\* completes, no bucket is created, and the recognized buckets named by
\* the same call are still updated.
C10_UnrecognizedSkipped == [][SkipUnrecognizedStep]_vars

\* a call naming an unknown dimension, a known difficulty and both an
\* unknown and a known device has updated the two known buckets only
C10_Witness ==
    /\ Len(calls) = 1
    /\ calls[1].given.dimension = "speed"
    /\ calls[1].given.difficulty = "easy"
    /\ calls[1].given.involved_devices = << "garage_door", "kitchen_light" >>
    /\ profile.by_difficulty["easy"].total = 1
    /\ profile.by_device["kitchen_light"].total = 1
    /\ \A d \in DIMENSIONS : profile.by_dimension[d].total = 0

(***************************************************************************)
(* More properties of TurnEvaluator.evaluate (checked under SpecEval).     *)
(***************************************************************************)
\* the expected keys the actual state does not have
MissingKeys == DOMAIN inp.expected_final_state \ DOMAIN inp.actual_final_state

\* does the error list name this key (as missing or as differing)
HasStateErrorFor(errors, key) ==
    \E i \in 1..Len(errors) :
        errors[i].kind \in {"state", "missing"} /\ errors[i].key = key

\* C12: when the sequence matches, an expected key missing from the actual
\* state gives an error and state_match False (score 0) in either scorer,
\* whatever value is expected for the key, None included.
C12_MissingKeyFails ==
    /\ (Evaluated /\ result.details.sequence_match /\ MissingKeys # {}) =>
          /\ result.details.state_match = PyFalse
          /\ result.score = 0
          /\ \A k \in MissingKeys : HasStateErrorFor(result.details.errors, k)
    /\ (AppEvaluated /\ app_result.details.sequence_match
            /\ MissingKeys # {}) =>
          /\ app_result.details.state_match = PyFalse
          /\ app_result.score = 0
          /\ \E k \in MissingKeys :
                HasStateErrorFor(app_result.details.errors, k)

\* the positions (counted from 0) where two sequences of one length differ
DifferingIndices(expected, actual) ==
    {i - 1 : i \in {j \in 1..Len(expected) : ~DictEq(expected[j], actual[j])}}

\* the errors are one positional error per differing index, in increasing
\* index order, when the lengths agree, and one count error otherwise
SequenceErrorsComplete(errors) ==
    LET expected == inp.expected_actions
        actual == inp.actual_actions
    IN  IF Len(expected) = Len(actual)
        THEN LET seq_errors == SelectSeq(errors, IsSequenceError)
             IN  /\ \A i \in 1..Len(seq_errors) : seq_errors[i].kind = "action"
                 /\ {seq_errors[i].idx : i \in 1..Len(seq_errors)} =
                        DifferingIndices(expected, actual)
                 /\ Len(seq_errors) =
                        Cardinality(DifferingIndices(expected, actual))
                 /\ \A i, j \in 1..Len(seq_errors) :
                        i < j => seq_errors[i].idx < seq_errors[j].idx
        ELSE errors = << CountError(Len(expected), Len(actual)) >>

\* C20: for sequences of one length evaluate records exactly one positional
\* error per differing index, all of them in increasing order; for a length
\* mismatch it records one error with the two counts and nothing else.
C20_AllMismatchesRecorded ==
    /\ Evaluated => SequenceErrorsComplete(result.details.errors)
    /\ AppEvaluated => SequenceErrorsComplete(app_result.details.errors)

\* the green_agent_v2 scorer records every differing index
V2RecordsAllMismatches == Evaluated => SequenceErrorsComplete(result.details.errors)

\* the legacy scorer fails a turn whose actual state lacks an expected key
AppMissingKeyFails ==
    (AppEvaluated /\ app_result.details.sequence_match /\ MissingKeys # {}) =>
        app_result.details.state_match = PyFalse /\ app_result.score = 0

(***************************************************************************)
(* One evaluation by the green_agent_v2 scorer over action values of       *)
(* several Python types.                                                   *)
(***************************************************************************)
\* {"action": "update", "key": key, "value": v} for any value v
TypedAction(key, v) == [action |-> Str("update"), key |-> Str(key), value |-> v]

TypedValues == {PyInt(24), Str("24"), PyFloat(24), PyInt(1), PyTrue}

TypedActions == {TypedAction("ac_temperature", v) : v \in TypedValues}

TypedInit ==
    /\ inp \in [expected_actions : SeqsUpTo(TypedActions, MaxActions),
                expected_final_state :
                    Dicts({"ac_temperature"}, {PyInt(24), Str("24")}),
                actual_actions : SeqsUpTo(TypedActions, MaxActions),
                actual_final_state :
                    Dicts({"ac_temperature"}, {PyInt(24), Str("24")})]
    /\ result = NoResult
    /\ app_result = NoResult
    /\ history = << >>
    /\ profile = _init_stats
    /\ heap = << >>
    /\ calls = << >>
    /\ NoServer
    /\ NoHost

TypedNext == Evaluate

SpecTyped == TypedInit /\ [][TypedNext]_vars

\* is there a positional error for position i (counted from 1)
HasActionErrorAt(errors, i) ==
    \E j \in 1..Len(errors) : errors[j].kind = "action" /\ errors[j].idx = i - 1

SameLength == Len(inp.expected_actions) = Len(inp.actual_actions)

\* C13: an actual action equals the expected one only if kind,
\* key and value are identical including the value's type, so values of
\* different types (24 vs "24", 1 vs True, 24 vs 24.0) are a mismatch at
\* that index and give sequence_match false.
C13_TypeSensitive ==
    (Evaluated /\ SameLength) =>
        \A i \in 1..Len(inp.expected_actions) :
            inp.expected_actions[i] # inp.actual_actions[i] =>
                /\ HasActionErrorAt(result.details.errors, i)
                /\ result.details.sequence_match = FALSE

\* What the comparison of lines 54-56 does instead: a string and a
\* number never compare equal (24 vs "24" is a mismatch at that index and
\* sequence_match is false); two numbers compare by numeric value whatever
\* their types (1 vs True, 24 vs 24.0 are equal and give no mismatch); and
\* sequence_match is true exactly when no position is a mismatch.
ComparesWithPythonEquality ==
    (Evaluated /\ SameLength) =>
        /\ \A i \in 1..Len(inp.expected_actions) :
              LET e == inp.expected_actions[i]["value"]
                  a == inp.actual_actions[i]["value"]
              IN  /\ (e.t = "str") # (a.t = "str") =>
                         /\ HasActionErrorAt(result.details.errors, i)
                         /\ result.details.sequence_match = FALSE
                  /\ (e.t = "str" /\ a.t = "str") =>
                         (HasActionErrorAt(result.details.errors, i)
                              <=> e.s # a.s)
                  /\ (e.t # "str" /\ a.t # "str") =>
                         (HasActionErrorAt(result.details.errors, i)
                              <=> e.n # a.n)
        /\ result.details.sequence_match <=>
              \A i \in 1..Len(inp.expected_actions) :
                  ~HasActionErrorAt(result.details.errors, i)

(***************************************************************************)
(* One evaluation by the green_agent_v2 scorer when the actual arguments   *)
(* may be any Python object, not only a list of dicts and a dict.          *)
(***************************************************************************)
\* a list object and a dict object, told apart from None and numbers
PyList(items) == [t |-> "list", items |-> items]

PyDict(items) == [t |-> "dict", items |-> items]

\* the exception an aborted call propagates to its caller
Raised(exc) == [raised |-> exc]

\* len(x) is defined (line 51)
HasLen(x) == x.t \in {"list", "dict"}

\* x.get is defined (line 68)
HasGet(x) == x.t = "dict"

evaluate_raw(expected_actions, expected_final_state, actual_actions, actual_final_state) ==
    IF ~HasLen(actual_actions)
    THEN Raised("TypeError")
    ELSE IF Len(SequenceErrors(expected_actions, actual_actions.items)) # 0
              \/ DOMAIN expected_final_state = {}
         THEN evaluate(expected_actions, expected_final_state,
                       actual_actions.items, << >>)
         ELSE IF ~HasGet(actual_final_state)
              THEN Raised("AttributeError")
              ELSE evaluate(expected_actions, expected_final_state,
                            actual_actions.items, actual_final_state.items)

\* items of an actual_actions list: an action dict, a string, None
RawItems == {UpdateAction("ac", "on"), Str("junk"), PyNone}

RawActions ==
    {PyNone, PyInt(5)} \cup {PyList(l) : l \in SeqsUpTo(RawItems, MaxActions)}

RawStates ==
    {PyNone, PyList(<< >>)}
        \cup {PyDict(d) : d \in Dicts({"ac"}, {Str("on")})}

RawInit ==
    /\ inp \in [expected_actions :
                    SeqsUpTo({UpdateAction("ac", "on")}, MaxActions),
                expected_final_state : Dicts({"ac"}, {Str("on")}),
                actual_actions : RawActions,
                actual_final_state : RawStates]
    /\ result = NoResult
    /\ app_result = NoResult
    /\ history = << >>
    /\ profile = _init_stats
    /\ heap = << >>
    /\ calls = << >>
    /\ NoServer
    /\ NoHost

EvaluateRaw ==
    /\ result = NoResult
    /\ result' = evaluate_raw(inp.expected_actions, inp.expected_final_state,
                              inp.actual_actions, inp.actual_final_state)
    /\ UNCHANGED << inp, app_result, sessionVars, hostVars, serverVars >>

RawNext == EvaluateRaw

SpecRaw == RawInit /\ [][RawNext]_vars

\* the actual input is not a list of dicts together with a dict
Malformed ==
    \/ inp.actual_actions.t # "list"
    \/ inp.actual_final_state.t # "dict"
    \/ /\ inp.actual_actions.t = "list"
       /\ \E i \in 1..Len(inp.actual_actions.items) :
              "action" \notin DOMAIN inp.actual_actions.items[i]

\* C11: evaluate never raises: for any actual input, malformed ones
\* included, the call returns a result value, and a malformed input yields
\* score 0 with errors.
C11_NeverRaises ==
    result # NoResult =>
        /\ "raised" \notin DOMAIN result
        /\ Malformed => (result.score = 0 /\ Len(result.details.errors) > 0)

(***************************************************************************)
(* One green_agent_v2 TurnEvaluator object, constructed once and asked to  *)
(* evaluate several times.  inp holds the evaluator's two attributes and   *)
(* the argument objects of the last call as the call left them; calls     *)
(* logs what each call was given, what it left and what it returned.       *)
(***************************************************************************)
TwiceActions == {UpdateAction("ac", "on"), UpdateAction("ac", "off")}

TwiceStates == Dicts({"ac"}, {Str("on"), Str("off")})

TwiceInit ==
    /\ inp \in [expected_actions : SeqsUpTo(TwiceActions, MaxActions),
                expected_final_state : TwiceStates,
                actual_actions : {<< >>},
                actual_final_state : {<< >>}]
    /\ result = NoResult
    /\ app_result = NoResult
    /\ history = << >>
    /\ profile = _init_stats
    /\ heap = << >>
    /\ calls = << >>
    /\ NoServer
    /\ NoHost

\* evaluate written so that it consumes self.expected_actions and the
\* actual_actions list while it compares them
EvaluateCallConsuming(actual_actions, actual_final_state) ==
    /\ Len(calls) < MaxCalls
    /\ result' = evaluate(inp.expected_actions, inp.expected_final_state,
                          actual_actions, actual_final_state)
    /\ inp' = [inp EXCEPT !.expected_actions = << >>,
                          !.actual_actions = << >>,
                          !.actual_final_state = actual_final_state]
    /\ calls' = Append(calls,
                    [actual_actions |-> actual_actions,
                     actual_final_state |-> actual_final_state,
                     actual_actions_after |-> << >>,
                     actual_final_state_after |-> actual_final_state,
                     returned |-> result'])
    /\ UNCHANGED << app_result, history, profile, heap, hostVars, serverVars >>

\* self.evaluate(actual_actions, actual_final_state): errors is a fresh
\* local list, the attributes and the arguments are only read
EvaluateCall(actual_actions, actual_final_state) ==
    /\ Len(calls) < MaxCalls
    /\ result' = evaluate(inp.expected_actions, inp.expected_final_state,
                          actual_actions, actual_final_state)
    /\ inp' = [inp EXCEPT !.actual_actions = actual_actions,
                          !.actual_final_state = actual_final_state]
    /\ calls' = Append(calls,
                    [actual_actions |-> actual_actions,
                     actual_final_state |-> actual_final_state,
                     actual_actions_after |-> actual_actions,
                     actual_final_state_after |-> actual_final_state,
                     returned |-> result'])
    /\ UNCHANGED << app_result, history, profile, heap, hostVars, serverVars >>

TwiceNext ==
    \E actual_actions \in SeqsUpTo(TwiceActions, MaxActions),
       actual_final_state \in TwiceStates :
        EvaluateCall(actual_actions, actual_final_state)

SpecTwice == TwiceInit /\ [][TwiceNext]_vars

SameArguments(c, d) ==
    /\ c.actual_actions = d.actual_actions
    /\ c.actual_final_state = d.actual_final_state

\* calls with identical arguments returned identical results, and every
\* call left its arguments as it was given them
Repeatable ==
    /\ \A i, j \in 1..Len(calls) :
           SameArguments(calls[i], calls[j]) =>
               calls[i].returned = calls[j].returned
    /\ \A i \in 1..Len(calls) :
           /\ calls[i].actual_actions_after = calls[i].actual_actions
           /\ calls[i].actual_final_state_after = calls[i].actual_final_state

EvaluatorKept ==
    /\ inp'.expected_actions = inp.expected_actions
    /\ inp'.expected_final_state = inp.expected_final_state

StatsMetadata ==
    [keys |-> {"dimension"}, dimension |-> "precision", difficulty |-> "",
     involved_devices |-> << >>]

StatsInit ==
    /\ inp = NoInput
    /\ result = NoResult
    /\ app_result = NoResult
    /\ history = << >>
    /\ profile = _init_stats
    /\ heap = << >>
    /\ calls = << >>
    /\ NoServer
    /\ NoHost

\* analyzer.update(result, metadata) with a result of the given score
Update(score) ==
    /\ Len(calls) < MaxUpdates
    /\ profile' = update(profile,
                         _build_result(score, TRUE, PyBool(score = 1), << >>,
                             IF score = 1 THEN "Perfect" ELSE "State mismatch"),
                         StatsMetadata)
    /\ calls' = Append(calls, [score |-> score])
    /\ UNCHANGED << inp, result, app_result, history, heap, hostVars, serverVars >>

StatsNext == \E score \in {0, 1} : Update(score)

SpecStats == StatsInit /\ [][StatsNext]_vars

\* the two quotients are defined and denote the same number
SameNumber(a, b) ==
    /\ a.den # 0
    /\ b.den # 0
    /\ a.num * b.den = b.num * a.den

Scored(v) == Cardinality({i \in 1..Len(calls) : calls[i].score = v})

EmptyBucketRates(stats) ==
    /\ SameNumber(pass_rate(stats), Quotient(0, 1))
    /\ SameNumber(weakness_score(stats), Quotient(1, 1))

C18_ReturnsRawResult ==
    \A i \in 1..Len(calls) :
        LET returned == calls[i].returned
            entry == history[i]
        IN  /\ DOMAIN returned = {"score", "details", "message"}
            /\ "index" \in DOMAIN entry
            /\ "metadata" \in DOMAIN entry
            /\ returned.score = entry.score
            /\ returned.details.sequence_match = entry.details.sequence_match
            /\ returned.details.state_match = entry.details.state_match
            /\ returned.details.errors = entry.details.errors
            /\ returned.message = entry.message

\* the second call of a session returned a failed result with an error
C18_Witness ==
    /\ Len(calls) = 2
    /\ history[2].index = 1
    /\ calls[2].returned.score = 0
    /\ Len(calls[2].returned.details.errors) > 0
    /\ calls[1].returned.score = 1

CounterFields ==
    {"total", "passed", "failed", "total_score", "max_possible_score"}

\* bucket after is bucket before with the outcome score recorded k times
RecordedTimes(before, after, score, k) ==
    /\ after.total = before.total + k
    /\ after.max_possible_score = before.max_possible_score + k
    /\ after.total_score = before.total_score + k * score
    /\ after.passed = before.passed + (IF score = 1 THEN k ELSE 0)
    /\ after.failed = before.failed + (IF score = 1 THEN 0 ELSE k)

MonotoneStep ==
    \A kind \in BucketKinds : \A name \in DOMAIN profile[kind] :
        /\ name \in DOMAIN profile'[kind]
        /\ \A f \in CounterFields :
               profile'[kind][name][f] >= profile[kind][name][f]
        /\ profile'[kind][name] # profile[kind][name] =>
               /\ IsCallStep
               /\ \E k \in 1..3 :
                      RecordedTimes(profile[kind][name], profile'[kind][name],
                                    ThisCall.returned.score, k)

\* C19: bucket counters are monotone: in every step total, passed, failed,
\* total_score and max_possible_score of every bucket never decrease and
\* are never reset, and a counter changes only as part of recording the
\* outcome of the call made in that step.
C19_Monotone == [][MonotoneStep]_vars

\* a bucket that recorded a failure and then a pass
C19_Witness ==
    /\ Len(calls) = 2
    /\ calls[1].returned.score = 0
    /\ calls[2].returned.score = 1
    /\ \E name \in DOMAIN profile.by_difficulty :
           /\ profile.by_difficulty[name].total = 2
           /\ profile.by_difficulty[name].passed = 1
           /\ profile.by_difficulty[name].failed = 1

(***************************************************************************)
(* A host that constructs several AdaptiveEvaluator objects and calls      *)
(* evaluate_turn on any of them.  sessions lists the objects, each holding *)
(* a reference to its history list and to the profile of its analyzer;     *)
(* objects holds the lists and the profiles.                               *)
(***************************************************************************)
\* every constructor using the one object that the class holds
SharedObject(store) == 1

\* [] and WeaknessProfile(): a new object, distinct from every other
NewObject(store) == Len(store) + 1

\* store with the object id bound to the value v
Put(store, id, v) ==
    IF id > Len(store) THEN Append(store, v) ELSE [store EXCEPT ![id] = v]

\* AdaptiveEvaluator(): self.analyzer = WeaknessAnalyzer(); self.history = []
Construct ==
    /\ Len(sessions) < MaxSessions
    /\ LET analyzer == NewObject(objects.profiles)
           hist == NewObject(objects.lists)
       IN  /\ sessions' = Append(sessions,
                              [analyzer |-> analyzer, history |-> hist])
           /\ objects' = [lists |-> Put(objects.lists, hist, << >>),
                          profiles |-> Put(objects.profiles, analyzer,
                                           _init_stats)]
    /\ UNCHANGED << evalVars, sessionVars, threads, serverVars >>

HostExpectedActions == << UpdateAction("ac", "on") >>

HostStates == [k \in {"ac"} |-> Str("on")]

HostActualActions == {<< UpdateAction("ac", "on") >>, << >>}

HostMetadata ==
    {m \in SessMetadata :
        /\ m.difficulty = "easy"
        /\ m.dimension \in {"", "precision"}
        /\ m.involved_devices \in {<< >>, << "ac", "ac" >>}}

\* sessions[s].evaluate_turn(actual_actions, ..., metadata) with a metadata
\* dict built for this call
SessionTurn(s, actual_actions, given) ==
    /\ Len(calls) < MaxCalls
    /\ LET hist == sessions[s].history
           analyzer == sessions[s].analyzer
           res == evaluate(HostExpectedActions, HostStates,
                           actual_actions, HostStates)
           full_record == [score |-> res.score,
                           details |-> res.details,
                           message |-> res.message,
                           metadata |-> Len(heap) + 1,
                           index |-> HistoryIndex(objects.lists[hist])]
           metadata == IF NeedsInference(given)
                       THEN SetInvolvedDevices(given,
                                _extract_devices(HostExpectedActions,
                                                 HostStates))
                       ELSE given
       IN  /\ objects' =
                  [lists |-> [objects.lists EXCEPT
                                 ![hist] = Append(@, full_record)],
                   profiles |-> [objects.profiles EXCEPT
                                    ![analyzer] = update(@, res, metadata)]]
           /\ heap' = Append(heap, metadata)
           /\ calls' = Append(calls,
                           [session |-> s,
                            returned |-> Returned(res, full_record)])
    /\ UNCHANGED << evalVars, history, profile, sessions, threads, serverVars >>

HostInit ==
    /\ inp = NoInput
    /\ result = NoResult
    /\ app_result = NoResult
    /\ history = << >>
    /\ profile = _init_stats
    /\ heap = << >>
    /\ calls = << >>
    /\ NoServer
    /\ NoHost

HostNext ==
    \/ Construct
    \/ \E s \in 1..Len(sessions), actual_actions \in HostActualActions,
          given \in HostMetadata :
           SessionTurn(s, actual_actions, given)

SpecHost == HostInit /\ [][HostNext]_vars

\* no two sessions refer to one history list or to one profile
DistinctObjects ==
    \A s, t \in 1..Len(sessions) :
        s # t => /\ sessions[s].history # sessions[t].history
                 /\ sessions[s].analyzer # sessions[t].analyzer

\* a step leaves the history and the profile of every session alone,
\* except those of the session whose evaluate_turn the step is a call of
IsolatedStep ==
    \A t \in 1..Len(sessions) :
        (IsCallStep /\ ThisCall.session = t)
        \/ /\ sessions'[t] = sessions[t]
           /\ objects'.lists[sessions[t].history]
                  = objects.lists[sessions[t].history]
           /\ objects'.profiles[sessions[t].analyzer]
                  = objects.profiles[sessions[t].analyzer]

\* C16: sessions are isolated: two AdaptiveEvaluator instances share no
\* history, analyzer or profile, and a call of evaluate_turn on one
\* instance leaves the history and every counter of the profile of the
\* other instance unchanged.
C16_Isolated == []DistinctObjects /\ [][IsolatedStep]_vars

\* two sessions, each called once: each history has one entry of index 0,
\* and the profiles differ
C16_Witness ==
    /\ Len(sessions) = 2
    /\ Len(calls) = 2
    /\ calls[1].session = 1
    /\ calls[2].session = 2
    /\ Len(objects.lists[sessions[1].history]) = 1
    /\ Len(objects.lists[sessions[2].history]) = 1
    /\ objects.lists[sessions[2].history][1].index = 0
    /\ objects.profiles[sessions[1].analyzer]
           # objects.profiles[sessions[2].analyzer]

(***************************************************************************)
(* A host whose threads call evaluate_turn on one session, one call per    *)
(* thread.  A call is a sequence of steps between which another thread may *)
(* run: the evaluation, the read of len(self.history), the append, and     *)
(* for every counter of every bucket the read and the write of +=.         *)
(* threads.serialized says whether the host wraps each call in a mutex,    *)
(* threads.owner is the thread holding it (0 for none), threads.local the  *)
(* position and the local values of each thread.                           *)
(***************************************************************************)
Threads == {1, 2}

\* the metadata dict of each call
ThreadMetadata ==
    [keys |-> {"dimension", "difficulty", "involved_devices"},
     dimension |-> "precision", difficulty |-> "easy",
     involved_devices |-> << "ac" >>]

Step(op, kind, name, field) ==
    [op |-> op, kind |-> kind, name |-> name, field |-> field]

\* _update_single_stat on one bucket: four += in the order of the code,
\* the last one on passed or on failed
CounterSteps(kind, name) ==
    << Step("load", kind, name, "total"),
       Step("store", kind, name, "total"),
       Step("load", kind, name, "total_score"),
       Step("store", kind, name, "total_score"),
       Step("load", kind, name, "max_possible_score"),
       Step("store", kind, name, "max_possible_score"),
       Step("load", kind, name, "outcome"),
       Step("store", kind, name, "outcome") >>

\* the steps of one evaluate_turn call with ThreadMetadata
Program ==
    << Step("evaluate", "", "", ""), Step("len", "", "", ""),
       Step("append", "", "", "") >>
        \o CounterSteps("by_dimension", ThreadMetadata.dimension)
        \o CounterSteps("by_difficulty", ThreadMetadata.difficulty)
        \o CounterSteps("by_device", ThreadMetadata.involved_devices[1])

ThreadsInit ==
    /\ inp = NoInput
    /\ result = NoResult
    /\ app_result = NoResult
    /\ history = << >>
    /\ profile = _init_stats
    /\ heap = << >>
    /\ calls = << >>
    /\ NoServer
    /\ sessions = << >>
    /\ objects = NoObjects
    /\ threads \in [serialized : BOOLEAN, owner : {0},
                    local : {[t \in Threads |->
                                [pc |-> 1, res |-> NoResult,
                                 index |-> 0, reg |-> 0]]}]

\* thread t is at a step of kind op and may run
At(t, op) ==
    /\ threads.local[t].pc <= Len(Program)
    /\ Program[threads.local[t].pc].op = op
    /\ threads.serialized => threads.owner \in {0, t}

\* thread t has taken its step; the mutex is held from the first step of a
\* call to its last
Advance(t, local) ==
    threads' =
        [threads EXCEPT
            !.local[t] = [local EXCEPT !.pc = @ + 1],
            !.owner = IF threads.serialized /\ local.pc < Len(Program)
                      THEN t ELSE 0]

\* the counter a step is about: passed or failed by the result
Counter(step, res) ==
    IF step.field = "outcome"
    THEN (IF res.score = 1 THEN "passed" ELSE "failed")
    ELSE step.field

\* what += adds to that counter
Increment(step, res) == IF step.field = "total_score" THEN res.score ELSE 1

\* result = evaluator.evaluate(actual_actions, actual_state)
ThreadEvaluate(t) ==
    /\ At(t, "evaluate")
    /\ \E actual_actions \in HostActualActions :
           Advance(t, [threads.local[t] EXCEPT
                          !.res = evaluate(HostExpectedActions, HostStates,
                                           actual_actions, HostStates)])
    /\ UNCHANGED << evalVars, sessionVars, sessions, objects, serverVars >>

\* len(self.history), evaluated while full_record is built
ThreadReadLen(t) ==
    /\ At(t, "len")
    /\ Advance(t, [threads.local[t] EXCEPT !.index = HistoryIndex(history)])
    /\ UNCHANGED << evalVars, sessionVars, sessions, objects, serverVars >>

\* self.history.append(full_record)
ThreadAppend(t) ==
    /\ At(t, "append")
    /\ history' = Append(history,
                      [score |-> threads.local[t].res.score,
                       details |-> threads.local[t].res.details,
                       message |-> threads.local[t].res.message,
                       metadata |-> t,
                       index |-> threads.local[t].index])
    /\ Advance(t, threads.local[t])
    /\ UNCHANGED << evalVars, profile, heap, calls, sessions, objects,
                    serverVars >>

\* the read of stats_obj.<counter> in stats_obj.<counter> += ...
ThreadLoad(t) ==
    /\ At(t, "load")
    /\ LET step == Program[threads.local[t].pc]
           counter == Counter(step, threads.local[t].res)
       IN  Advance(t, [threads.local[t] EXCEPT
                          !.reg = profile[step.kind][step.name][counter]])
    /\ UNCHANGED << evalVars, sessionVars, sessions, objects, serverVars >>

\* the write of stats_obj.<counter> in stats_obj.<counter> += ...
ThreadStore(t) ==
    /\ At(t, "store")
    /\ LET step == Program[threads.local[t].pc]
           counter == Counter(step, threads.local[t].res)
       IN  profile' = [profile EXCEPT
                          ![step.kind][step.name][counter] =
                              threads.local[t].reg
                                  + Increment(step, threads.local[t].res)]
    /\ Advance(t, threads.local[t])
    /\ UNCHANGED << evalVars, history, heap, calls, sessions, objects,
                    serverVars >>

ThreadsNext ==
    \E t \in Threads :
        \/ ThreadEvaluate(t)
        \/ ThreadReadLen(t)
        \/ ThreadAppend(t)
        \/ ThreadLoad(t)
        \/ ThreadStore(t)

SpecThreads == ThreadsInit /\ [][ThreadsNext]_vars

Finished(t) == threads.local[t].pc > Len(Program)

\* no call is under way
Quiescent == \A t \in Threads : threads.local[t].pc = 1 \/ Finished(t)

FinishedWith(v) ==
    Cardinality({t \in Threads : Finished(t) /\ threads.local[t].res.score = v})

\* the bucket holds exactly the outcomes of the finished calls
CountsFinished(stats) ==
    /\ stats.total = FinishedWith(0) + FinishedWith(1)
    /\ stats.max_possible_score = FinishedWith(0) + FinishedWith(1)
    /\ stats.total_score = FinishedWith(1)
    /\ stats.passed = FinishedWith(1)
    /\ stats.failed = FinishedWith(0)

\* the index of every history entry is its position
IndexIsPosition == \A i \in 1..Len(history) : history[i].index = i - 1

\* C17: when the host serializes the calls of one session, no two history
\* entries carry the same index (the index of an entry is its position)
\* and no bucket counter loses an increment; without serialization there
\* is an interleaving of two calls that reaches both (C17_Witness).
C17_SerializedSafe ==
    threads.serialized =>
        /\ IndexIsPosition
        /\ Quiescent =>
              /\ CountsFinished(profile.by_dimension["precision"])
              /\ CountsFinished(profile.by_difficulty["easy"])
              /\ CountsFinished(profile.by_device["ac"])

\* two unserialized calls have finished: both history entries carry index
\* 0, and the precision bucket counts one call
C17_Witness ==
    /\ ~threads.serialized
    /\ \A t \in Threads : Finished(t)
    /\ Len(history) = 2
    /\ history[1].index = 0
    /\ history[2].index = 0
    /\ profile.by_dimension["precision"].total = 1

\* the devices of the expected side of call c
ExpectedDevices(c) ==
    ActionKeys(c.expected_actions) \cup DOMAIN c.expected_state

\* the device buckets that the step changes
UpdatedDevices ==
    {name \in DOMAIN profile.by_device :
        profile'.by_device[name] # profile.by_device[name]}

DeclaredStep ==
    (IsCallStep /\ "involved_devices" \in ThisCall.given.keys) =>
        /\ heap'[ThisCall.metadata] = ThisCall.given
        /\ UpdatedDevices =
               Range(ThisCall.given.involved_devices) \cap DEVICE_CONSTRAINTS

\* C21: when the metadata passed to evaluate_turn already declares
\* involved_devices, the call infers nothing: it leaves
\* metadata.involved_devices as it was and updates exactly the recognized
\* device buckets named there, also when they are not the devices of the
\* expected side.
C21_DeclaredDevicesKept == [][DeclaredStep]_vars

\* a call that declared kitchen_light while its expected side names ac has
\* updated the kitchen_light bucket and not the ac bucket
C21_Witness ==
    /\ Len(calls) = 1
    /\ "involved_devices" \in calls[1].given.keys
    /\ "kitchen_light" \in Range(calls[1].given.involved_devices)
    /\ ExpectedDevices(calls[1]) = {"ac"}
    /\ profile.by_device["kitchen_light"].total = 1
    /\ profile.by_device["ac"].total = 0

\* the first call that was passed the metadata dict of call c
FirstCallWith(c) ==
    CHOOSE j \in 1..Len(calls') :
        /\ calls'[j].metadata = c.metadata
        /\ \A k \in 1..(j - 1) : calls'[k].metadata # c.metadata

\* the caller put involved_devices into the dict it passes in call c
CallerSupplied(c) ==
    "involved_devices" \in calls'[FirstCallWith(c)].given.keys

InferredFromOwnTurnStep ==
    (IsCallStep /\ ~CallerSupplied(ThisCall)) =>
        UpdatedDevices = ExpectedDevices(ThisCall) \cap DEVICE_CONSTRAINTS

\* C22: for every evaluate_turn call whose caller did not supply
\* involved_devices, the device buckets the call updates are exactly the
\* recognized devices of that call's own expected_actions and
\* expected_final_state, also when the caller passes one metadata dict to
\* successive calls with different expected devices.
C22_InferredFromOwnTurn == [][InferredFromOwnTurnStep]_vars

\* the profile as the constructor leaves it: the catalog's 5 dimensions,
\* 3 difficulties and 10 devices, every counter zero
AtConstruction ==
    /\ Cardinality(DOMAIN profile.by_dimension) = 5
    /\ Cardinality(DOMAIN profile.by_difficulty) = 3
    /\ Cardinality(DOMAIN profile.by_device) = 10
    /\ \A kind \in BucketKinds : \A name \in DOMAIN profile[kind] :
           \A f \in CounterFields : profile[kind][name][f] = 0

ProfileFrame ==
    /\ Len(calls) = 0 => AtConstruction
    /\ DOMAIN profile.by_dimension = DIMENSIONS
    /\ DOMAIN profile.by_difficulty = DIFFICULTIES
    /\ DOMAIN profile.by_device = DEVICE_CONSTRAINTS
    /\ profile.failed_cases = << >>
    /\ profile.boundary_found = << >>

\* a call leaves every bucket alone that its metadata does not reference
UnreferencedKeptStep ==
    IsCallStep =>
        \A kind \in BucketKinds : \A name \in DOMAIN profile[kind] :
            ~References(ThisCall, kind, name) =>
                /\ name \in DOMAIN profile'[kind]
                /\ profile'[kind][name] = profile[kind][name]

\* C23: frame of one evaluate_turn/update call: every bucket the call's
\* metadata does not reference keeps its five counters; the bucket names of
\* by_dimension, by_difficulty and by_device stay the catalog's, as set at
\* construction (5, 3 and 10 names, all counters zero); failed_cases and
\* boundary_found stay empty after any calls, calls that score 0 included.
C23_Frame == []ProfileFrame /\ [][UnreferencedKeptStep]_vars

\* a failed call has been recorded in the easy bucket, and the medium
\* bucket is as it was constructed
C23_Witness ==
    /\ Len(calls) = 2
    /\ calls[2].returned.score = 0
    /\ References(calls[2], "by_difficulty", "easy")
    /\ profile.by_difficulty["easy"].failed > 0
    /\ profile.by_difficulty["medium"] = DimensionStats
    /\ profile.failed_cases = << >>

\* C24: the legacy TurnEvaluator and the green_agent_v2 TurnEvaluator are
\* equivalent as scorers: on the same expected and actual inputs they
\* return the same score, the same sequence_match and the same state_match.
C24_ScorersEquivalent ==
    (Evaluated /\ AppEvaluated) =>
        /\ result.score = app_result.score
        /\ result.details.sequence_match = app_result.details.sequence_match
        /\ result.details.state_match = app_result.details.state_match

\* the two scorers return the same score and the same sequence_match
SameScoreAndSequence ==
    (Evaluated /\ AppEvaluated) =>
        /\ result.score = app_result.score
        /\ result.details.sequence_match = app_result.details.sequence_match

\* the two scorers agree whenever the sequence matches and no expected key
\* is missing from the actual state
EquivalentOnCompleteStates ==
    (Evaluated /\ AppEvaluated /\ result.details.sequence_match
         /\ MissingKeys = {}) =>
        /\ result.score = app_result.score
        /\ result.details.sequence_match = app_result.details.sequence_match
        /\ result.details.state_match = app_result.details.state_match

(***************************************************************************)
(* app: one ScenarioEvaluator scoring the turns of a scenario against a    *)
(* list of actual results.  inp holds scenario_data and actual_results,    *)
(* result the returned dict.                                               *)
(***************************************************************************)
\* d.get(k, default)
GetOr(d, k, default) == IF k \in DOMAIN d THEN d[k] ELSE default

\* sum(xs)
RECURSIVE sum(_)
sum(xs) == IF Len(xs) = 0 THEN 0 ELSE Head(xs) + sum(Tail(xs))

\* the actual result with the turn's turn_id when there is one
ActualForTurnId(actual_results, i, turn_def) ==
    IF \E j \in 1..Len(actual_results) :
           actual_results[j].turn_id = turn_def.turn_id
    THEN actual_results[CHOOSE j \in 1..Len(actual_results) :
                            actual_results[j].turn_id = turn_def.turn_id]
    ELSE actual_results[i]

\* actual = actual_results[i]
ActualFor(actual_results, i, turn_def) == actual_results[i]

\* the entry of turn_details for the turn at position i (counted from 1)
TurnDetail(turns, actual_results, i) ==
    IF i - 1 >= Len(actual_results)
    THEN [turn_id |-> turns[i].turn_id,
          score |-> 0,
          message |-> "Missing actual result for this turn"]
    ELSE LET actual == ActualFor(actual_results, i, turns[i])
             res == app_evaluate(
                        GetOr(turns[i], "expected_action", << >>),
                        GetOr(turns[i], "expected_final_state", << >>),
                        GetOr(actual, "action_sequence", << >>),
                        GetOr(actual, "final_state", << >>))
         IN  [turn_id |-> turns[i].turn_id,
              score |-> res.score,
              message |-> res.message,
              details |-> res.details]

evaluate_all_turns(scenario_data, actual_results) ==
    LET turns == GetOr(scenario_data, "turns", << >>)
        turn_details == [i \in 1..Len(turns) |->
                            TurnDetail(turns, actual_results, i)]
        turn_scores == [i \in 1..Len(turns) |-> turn_details[i].score]
        total_score == sum(turn_scores)
        max_score == Len(turns)
    IN  [scenario_id |-> GetOr(scenario_data, "scenario_id", PyNone),
         total_score |-> total_score,
         max_score |-> max_score,
         turn_scores |-> turn_scores,
         turn_details |-> turn_details,
         summary |-> << GetOr(scenario_data, "scenario_id", PyNone),
                        total_score, max_score >>]

\* turn definitions: two with every key, one without expected_final_state
TurnDefs ==
    {[turn_id |-> t,
      expected_action |-> << UpdateAction("ac", "on") >>,
      expected_final_state |-> [k \in {"ac"} |-> Str("on")]] : t \in {1, 2}}
        \cup {[turn_id |-> 1, expected_action |-> << >>]}

\* actual results: the agent's actions and state, or nothing but the id
ActualResults ==
    [turn_id : {1, 2},
     action_sequence : {<< UpdateAction("ac", "on") >>, << >>},
     final_state : {[k \in {"ac"} |-> Str("on")]}]
        \cup {[turn_id |-> 1]}

ScenarioInit ==
    /\ inp \in [scenario_data :
                    {[scenario_id |-> Str("s1"), turns |-> ts] :
                         ts \in SeqsUpTo(TurnDefs, MaxTurns)}
                        \cup {[scenario_id |-> Str("s1")]},
                actual_results : SeqsUpTo(ActualResults, MaxTurns)]
    /\ result = NoResult
    /\ app_result = NoResult
    /\ history = << >>
    /\ profile = _init_stats
    /\ heap = << >>
    /\ calls = << >>
    /\ NoServer
    /\ NoHost

\* ScenarioEvaluator(scenario_data).evaluate_all_turns(actual_results)
EvaluateAllTurns ==
    /\ result = NoResult
    /\ result' = evaluate_all_turns(inp.scenario_data, inp.actual_results)
    /\ UNCHANGED << inp, app_result, sessionVars, hostVars, serverVars >>

ScenarioNext == EvaluateAllTurns

SpecScenario == ScenarioInit /\ [][ScenarioNext]_vars

DefinedTurns == GetOr(inp.scenario_data, "turns", << >>)

\* the score of the legacy TurnEvaluator for turn i against the actual
\* result at the same position
PositionalScore(i) ==
    app_evaluate(GetOr(DefinedTurns[i], "expected_action", << >>),
                 GetOr(DefinedTurns[i], "expected_final_state", << >>),
                 GetOr(inp.actual_results[i], "action_sequence", << >>),
                 GetOr(inp.actual_results[i], "final_state", << >>)).score

\* C25: evaluate_all_turns returns one score per defined turn, in turn
\* order: turn i is scored against actual_results[i]; a turn with no actual
\* result at its position scores 0 with a 'missing' message; actual results
\* beyond the defined turns are ignored; total_score is the sum of
\* turn_scores and 0 <= total_score <= max_score = number of defined turns.
C25_ScenarioScores ==
    result # NoResult =>
        /\ Len(result.turn_scores) = Len(DefinedTurns)
        /\ Len(result.turn_details) = Len(DefinedTurns)
        /\ \A i \in 1..Len(DefinedTurns) :
              /\ result.turn_details[i].turn_id = DefinedTurns[i].turn_id
              /\ result.turn_details[i].score = result.turn_scores[i]
              /\ i <= Len(inp.actual_results) =>
                     result.turn_scores[i] = PositionalScore(i)
              /\ i > Len(inp.actual_results) =>
                     /\ result.turn_scores[i] = 0
                     /\ result.turn_details[i].message
                            = "Missing actual result for this turn"
        /\ Len(inp.actual_results) > Len(DefinedTurns) =>
              result = evaluate_all_turns(inp.scenario_data,
                           SubSeq(inp.actual_results, 1, Len(DefinedTurns)))
        /\ result.total_score = sum(result.turn_scores)
        /\ result.max_score = Len(DefinedTurns)
        /\ 0 <= result.total_score
        /\ result.total_score <= result.max_score

\* two turns and one actual result, filed under the other turn's id: the
\* first turn scores 1 by position and the second is missing
C25_Witness ==
    /\ result # NoResult
    /\ Len(DefinedTurns) = 2
    /\ Len(inp.actual_results) = 1
    /\ DefinedTurns[1].turn_id = 1
    /\ inp.actual_results[1].turn_id = 2
    /\ result.turn_scores = << 1, 0 >>
    /\ result.total_score = 1

(***************************************************************************)
(* scripts/fake_purple_server.py: the request handler a2a_entry and the    *)
(* threads that run complete_task.  TASKS is the task store, completers    *)
(* the position of the thread of each task, responses the JSON responses   *)
(* sent so far.  A message text is modelled by the set of the phrases that *)
(* _make_artifact_for_message looks for in it.                             *)
(***************************************************************************)
Texts == {{}, {"turn on", "living room"}, {"ac", "24"}}

\* one element of an artifact's parts: the echo of the text, or the JSON
\* text of the listed actions
TextPart(kind, actions) == [kind |-> kind, actions |-> actions]

_make_artifact_for_message(text) ==
    LET on == IF {"turn on", "living room"} \subseteq text
              THEN << UpdateAction("living_room_light", "on") >> ELSE << >>
        off == IF {"turn off", "living room"} \subseteq text
               THEN << UpdateAction("living_room_light", "off") >> ELSE << >>
        ac == IF {"ac", "24"} \subseteq text
              THEN << TypedAction("ac_temperature", PyInt(24)),
                      UpdateAction("ac", "on") >>
              ELSE << >>
        set == IF "set the ac to 24" \in text
               THEN << TypedAction("ac_temperature", PyInt(24)),
                       UpdateAction("ac", "on") >>
               ELSE << >>
        actions == on \o off \o ac \o set
    IN  [parts |->
            << TextPart("echo", << >>) >>
                \o [i \in 1..Len(actions) |->
                       TextPart("json", << actions[i] >>)]
                \o (IF Len(actions) = 0
                    THEN << TextPart("json", << >>) >> ELSE << >>)]

\* str(uuid.uuid4()): the n-th identifier drawn, distinct from the others
uuid4(n) == n

ServerInit ==
    /\ inp = NoInput
    /\ result = NoResult
    /\ app_result = NoResult
    /\ history = << >>
    /\ profile = _init_stats
    /\ heap = << >>
    /\ calls = << >>
    /\ NoServer
    /\ NoHost

\* method == "tasks/send"
TasksSend(text) ==
    /\ Cardinality(DOMAIN TASKS) < MaxTasks
    /\ Len(responses) < MaxRequests
    /\ LET task_id == uuid4(2 * Cardinality(DOMAIN TASKS) + 1)
           session_id == uuid4(2 * Cardinality(DOMAIN TASKS) + 2)
           task == [id |-> task_id,
                    sessionId |-> session_id,
                    status |-> [state |-> "working"],
                    artifacts |-> << >>,
                    message_text |-> text]
       IN  /\ TASKS' = (task_id :> task) @@ TASKS
           /\ completers' = (task_id :> "sleep") @@ completers
           /\ responses' = Append(responses,
                               [method |-> "tasks/send", id |-> task_id,
                                status_code |-> 200, result |-> task])
    /\ UNCHANGED << evalVars, sessionVars, hostVars >>

\* complete_task: TASKS[tid]["status"] = {"state": "completed"}
CompleteStatus(tid) ==
    /\ completers[tid] = "sleep"
    /\ TASKS' = [TASKS EXCEPT ![tid].status = [state |-> "completed"]]
    /\ completers' = [completers EXCEPT ![tid] = "status"]
    /\ UNCHANGED << evalVars, sessionVars, hostVars, responses >>

\* complete_task: TASKS[tid]["artifacts"] = [_make_artifact_for_message(txt)]
CompleteArtifacts(tid) ==
    /\ completers[tid] = "status"
    /\ TASKS' = [TASKS EXCEPT
                    ![tid].artifacts =
                        << _make_artifact_for_message(TASKS[tid].message_text) >>]
    /\ completers' = [completers EXCEPT ![tid] = "done"]
    /\ UNCHANGED << evalVars, sessionVars, hostVars, responses >>

\* method == "tasks/get"
TasksGet(params_id) ==
    /\ Len(responses) < MaxRequests
    /\ responses' = Append(responses,
                        IF params_id \notin DOMAIN TASKS
                        THEN [method |-> "tasks/get", id |-> params_id,
                              status_code |-> 404,
                              error |-> "task not found"]
                        ELSE [method |-> "tasks/get", id |-> params_id,
                              status_code |-> 200,
                              result |-> TASKS[params_id]])
    /\ UNCHANGED << evalVars, sessionVars, hostVars, TASKS, completers >>

ServerNext ==
    \/ \E text \in Texts : TasksSend(text)
    \/ \E tid \in DOMAIN completers : CompleteStatus(tid)
    \/ \E tid \in DOMAIN completers : CompleteArtifacts(tid)
    \/ \E params_id \in 1..(2 * MaxTasks) : TasksGet(params_id)

SpecServer == ServerInit /\ [][ServerNext]_vars

\* the task ids that tasks/send had handed out before response i
SentBefore(i) ==
    {responses[j].id : j \in {k \in 1..(i - 1) :
                                 responses[k].method = "tasks/send"}}

\* a task starts in state working, is completed by its thread and, once
\* seen completed, is never seen working again
TaskStates ==
    /\ \A i \in 1..Len(responses) :
           responses[i].method = "tasks/send" =>
               responses[i].result.status.state = "working"
    /\ \A tid \in DOMAIN TASKS :
           TASKS[tid].status.state =
               (IF completers[tid] = "sleep" THEN "working" ELSE "completed")
    /\ \A i, j \in 1..Len(responses) :
           (/\ i < j
            /\ responses[i].method = "tasks/get"
            /\ responses[j].method = "tasks/get"
            /\ responses[i].id = responses[j].id
            /\ "result" \in DOMAIN responses[i]
            /\ responses[i].result.status.state = "completed") =>
               /\ "result" \in DOMAIN responses[j]
               /\ responses[j].result.status.state = "completed"

\* tasks/get for an unknown id answers 'task not found' and creates no
\* task: the store holds the tasks of tasks/send only
UnknownIds ==
    /\ DOMAIN TASKS = SentBefore(Len(responses) + 1)
    /\ \A i \in 1..Len(responses) :
           (responses[i].method = "tasks/get"
                /\ responses[i].id \notin SentBefore(i)) =>
               /\ "error" \in DOMAIN responses[i]
               /\ responses[i].error = "task not found"

\* a response of tasks/get that shows a completed task shows its artifacts
CompletedHasArtifacts ==
    \A i \in 1..Len(responses) :
        (/\ responses[i].method = "tasks/get"
         /\ "result" \in DOMAIN responses[i]
         /\ responses[i].result.status.state = "completed") =>
            Len(responses[i].result.artifacts) > 0

\* C26: a task created by tasks/send starts in state working and is later
\* moved to completed by a background thread, never back; every tasks/get
\* that observes a task in state completed also observes its artifacts
\* (non-empty), under every interleaving of the completion thread with the
\* request handlers; tasks/get for an unknown id returns a 'task not found'
\* error and creates no task.
C26_CompletedWithArtifacts ==
    /\ TaskStates
    /\ CompletedHasArtifacts
    /\ UnknownIds

\* the parts of C26 about the task states and about unknown ids
TaskLifecycle == TaskStates /\ UnknownIds

====
